---------------------------- MODULE Spec2Model ----------------------------
(***************************************************************************)
(* Provisioning-and-build orchestration engine of FinSight:                *)
(*   src/finsight_runner.py  (FinSightRunner, main)                        *)
(*   src/build_apk.py        (FlutterAPKBuilder, main)                     *)
(*                                                                         *)
(* Text is a sequence of one-character strings, so that substring tests,   *)
(* lower(), strip() and split() are computed on the characters.  External  *)
(* processes are inputs: an exit status, the text written to stdout and    *)
(* the text written to stderr.                                             *)
(***************************************************************************)
EXTENDS Integers, Sequences, FiniteSets, TLC

\* ------------------------------------------------------------------ bounds
\* Longest device-list output, in lines, the device-listing tool produces.
MaxLines ==
    3
\* Depth of nested build_apk activations the interpreter allows before it
\* raises RecursionError (the interpreter's limit, scaled down).
RecursionLimit ==
    3

\* ------------------------------------------------- command and other texts
Cmd_apt_install ==
    <<"a","p","t","-","g","e","t"," ","u","p","d","a","t","e"," ","&","&"," ","a","p","t","-","g","e","t"," ","i","n","s","t","a","l","l"," ","-","y"," ","o","p","e","n","j","d","k","-","1","7","-","j","d","k">>
Cmd_java_version ==
    <<"j","a","v","a"," ","-","v","e","r","s","i","o","n">>
Cmd_flutter_version ==
    <<"/","t","m","p","/","f","l","u","t","t","e","r","/","b","i","n","/","f","l","u","t","t","e","r"," ","-","-","v","e","r","s","i","o","n">>
Cmd_git_clone ==
    <<"g","i","t"," ","c","l","o","n","e"," ","h","t","t","p","s",":","/","/","g","i","t","h","u","b",".","c","o","m","/","f","l","u","t","t","e","r","/","f","l","u","t","t","e","r",".","g","i","t"," ","-","b"," ","s","t","a","b","l","e"," ","-","-","d","e","p","t","h"," ","1"," ","/","t","m","p","/","f","l","u","t","t","e","r">>
Cmd_config_no_analytics ==
    <<"/","t","m","p","/","f","l","u","t","t","e","r","/","b","i","n","/","f","l","u","t","t","e","r"," ","c","o","n","f","i","g"," ","-","-","n","o","-","a","n","a","l","y","t","i","c","s">>
Cmd_precache_android ==
    <<"/","t","m","p","/","f","l","u","t","t","e","r","/","b","i","n","/","f","l","u","t","t","e","r"," ","p","r","e","c","a","c","h","e"," ","-","-","a","n","d","r","o","i","d">>
Cmd_precache ==
    <<"/","t","m","p","/","f","l","u","t","t","e","r","/","b","i","n","/","f","l","u","t","t","e","r"," ","p","r","e","c","a","c","h","e">>
Cmd_sdkmanager_version ==
    <<"/","t","m","p","/","a","n","d","r","o","i","d","-","s","d","k","/","c","m","d","l","i","n","e","-","t","o","o","l","s","/","l","a","t","e","s","t","/","b","i","n","/","s","d","k","m","a","n","a","g","e","r"," ","-","-","v","e","r","s","i","o","n">>
Cmd_wget_q ==
    <<"w","g","e","t"," ","-","q"," ","-","O"," ","/","t","m","p","/","c","o","m","m","a","n","d","l","i","n","e","t","o","o","l","s",".","z","i","p"," ","h","t","t","p","s",":","/","/","d","l",".","g","o","o","g","l","e",".","c","o","m","/","a","n","d","r","o","i","d","/","r","e","p","o","s","i","t","o","r","y","/","c","o","m","m","a","n","d","l","i","n","e","t","o","o","l","s","-","l","i","n","u","x","-","1","1","0","7","6","7","0","8","_","l","a","t","e","s","t",".","z","i","p">>
Cmd_wget ==
    <<"w","g","e","t"," ","-","O"," ","/","t","m","p","/","c","o","m","m","a","n","d","l","i","n","e","t","o","o","l","s",".","z","i","p"," ","h","t","t","p","s",":","/","/","d","l",".","g","o","o","g","l","e",".","c","o","m","/","a","n","d","r","o","i","d","/","r","e","p","o","s","i","t","o","r","y","/","c","o","m","m","a","n","d","l","i","n","e","t","o","o","l","s","-","l","i","n","u","x","-","1","1","0","7","6","7","0","8","_","l","a","t","e","s","t",".","z","i","p">>
Cmd_unzip ==
    <<"u","n","z","i","p"," ","-","q"," ","/","t","m","p","/","c","o","m","m","a","n","d","l","i","n","e","t","o","o","l","s",".","z","i","p"," ","-","d"," ","/","t","m","p","/","c","m","d","l","i","n","e","-","t","o","o","l","s","-","t","m","p"," ","&","&"," ","m","v"," ","/","t","m","p","/","c","m","d","l","i","n","e","-","t","o","o","l","s","-","t","m","p","/","c","m","d","l","i","n","e","-","t","o","o","l","s","/","*"," ","/","t","m","p","/","a","n","d","r","o","i","d","-","s","d","k","/","c","m","d","l","i","n","e","-","t","o","o","l","s","/","l","a","t","e","s","t","/"," ","&","&"," ","r","m"," ","-","r","f"," ","/","t","m","p","/","c","m","d","l","i","n","e","-","t","o","o","l","s","-","t","m","p"," ","/","t","m","p","/","c","o","m","m","a","n","d","l","i","n","e","t","o","o","l","s",".","z","i","p">>
Cmd_licenses ==
    <<"y","e","s"," ","|"," ","/","t","m","p","/","a","n","d","r","o","i","d","-","s","d","k","/","c","m","d","l","i","n","e","-","t","o","o","l","s","/","l","a","t","e","s","t","/","b","i","n","/","s","d","k","m","a","n","a","g","e","r"," ","-","-","l","i","c","e","n","s","e","s">>
Cmd_sdk_install ==
    <<"/","t","m","p","/","a","n","d","r","o","i","d","-","s","d","k","/","c","m","d","l","i","n","e","-","t","o","o","l","s","/","l","a","t","e","s","t","/","b","i","n","/","s","d","k","m","a","n","a","g","e","r"," ","\"","p","l","a","t","f","o","r","m","-","t","o","o","l","s","\""," ","\"","p","l","a","t","f","o","r","m","s",";","a","n","d","r","o","i","d","-","3","4","\""," ","\"","b","u","i","l","d","-","t","o","o","l","s",";","3","4",".","0",".","0","\"">>
Cmd_config_android_sdk ==
    <<"/","t","m","p","/","f","l","u","t","t","e","r","/","b","i","n","/","f","l","u","t","t","e","r"," ","c","o","n","f","i","g"," ","-","-","a","n","d","r","o","i","d","-","s","d","k"," ","/","t","m","p","/","a","n","d","r","o","i","d","-","s","d","k">>
Cmd_pub_get ==
    <<"c","d"," ","/","w","o","r","k","s","p","a","c","e","s","/","F","i","n","S","i","g","h","t","-","A","u","t","o","m","a","t","e","d","-","E","x","p","e","n","s","e","-","R","e","c","o","g","n","i","t","i","o","n"," ","&","&"," ","/","t","m","p","/","f","l","u","t","t","e","r","/","b","i","n","/","f","l","u","t","t","e","r"," ","p","u","b"," ","g","e","t">>
Cmd_flutter_clean ==
    <<"c","d"," ","/","w","o","r","k","s","p","a","c","e","s","/","F","i","n","S","i","g","h","t","-","A","u","t","o","m","a","t","e","d","-","E","x","p","e","n","s","e","-","R","e","c","o","g","n","i","t","i","o","n"," ","&","&"," ","/","t","m","p","/","f","l","u","t","t","e","r","/","b","i","n","/","f","l","u","t","t","e","r"," ","c","l","e","a","n">>
Cmd_adb_devices ==
    <<"/","t","m","p","/","a","n","d","r","o","i","d","-","s","d","k","/","p","l","a","t","f","o","r","m","-","t","o","o","l","s","/","a","d","b"," ","d","e","v","i","c","e","s"," ","-","l">>
Cmd_flutter_run ==
    <<"c","d"," ","/","w","o","r","k","s","p","a","c","e","s","/","F","i","n","S","i","g","h","t","-","A","u","t","o","m","a","t","e","d","-","E","x","p","e","n","s","e","-","R","e","c","o","g","n","i","t","i","o","n"," ","&","&"," ","/","t","m","p","/","f","l","u","t","t","e","r","/","b","i","n","/","f","l","u","t","t","e","r"," ","r","u","n">>
Cmd_build_release ==
    <<"c","d"," ","/","w","o","r","k","s","p","a","c","e","s","/","F","i","n","S","i","g","h","t","-","A","u","t","o","m","a","t","e","d","-","E","x","p","e","n","s","e","-","R","e","c","o","g","n","i","t","i","o","n"," ","&","&"," ","/","t","m","p","/","f","l","u","t","t","e","r","/","b","i","n","/","f","l","u","t","t","e","r"," ","b","u","i","l","d"," ","a","p","k"," ","-","-","r","e","l","e","a","s","e">>
Cmd_build_debug ==
    <<"c","d"," ","/","w","o","r","k","s","p","a","c","e","s","/","F","i","n","S","i","g","h","t","-","A","u","t","o","m","a","t","e","d","-","E","x","p","e","n","s","e","-","R","e","c","o","g","n","i","t","i","o","n"," ","&","&"," ","/","t","m","p","/","f","l","u","t","t","e","r","/","b","i","n","/","f","l","u","t","t","e","r"," ","b","u","i","l","d"," ","a","p","k"," ","-","-","d","e","b","u","g">>
Cmd_builder_build_release ==
    <<"c","d"," ","/","w","o","r","k","s","p","a","c","e","s","/","F","i","n","S","i","g","h","t","-","A","u","t","o","m","a","t","e","d","-","E","x","p","e","n","s","e","-","R","e","c","o","g","n","i","t","i","o","n"," ","&","&"," ","/","t","m","p","/","f","l","u","t","t","e","r","/","b","i","n","/","f","l","u","t","t","e","r"," ","b","u","i","l","d"," ","a","p","k">>
Cmd_adb_install_debug ==
    <<"/","t","m","p","/","a","n","d","r","o","i","d","-","s","d","k","/","p","l","a","t","f","o","r","m","-","t","o","o","l","s","/","a","d","b"," ","i","n","s","t","a","l","l"," ","-","r"," ","/","w","o","r","k","s","p","a","c","e","s","/","F","i","n","S","i","g","h","t","-","A","u","t","o","m","a","t","e","d","-","E","x","p","e","n","s","e","-","R","e","c","o","g","n","i","t","i","o","n","/","b","u","i","l","d","/","a","p","p","/","o","u","t","p","u","t","s","/","f","l","u","t","t","e","r","-","a","p","k","/","a","p","p","-","d","e","b","u","g",".","a","p","k">>
Cmd_adb_install_release ==
    <<"/","t","m","p","/","a","n","d","r","o","i","d","-","s","d","k","/","p","l","a","t","f","o","r","m","-","t","o","o","l","s","/","a","d","b"," ","i","n","s","t","a","l","l"," ","-","r"," ","/","w","o","r","k","s","p","a","c","e","s","/","F","i","n","S","i","g","h","t","-","A","u","t","o","m","a","t","e","d","-","E","x","p","e","n","s","e","-","R","e","c","o","g","n","i","t","i","o","n","/","b","u","i","l","d","/","a","p","p","/","o","u","t","p","u","t","s","/","f","l","u","t","t","e","r","-","a","p","k","/","a","p","p","-","r","e","l","e","a","s","e",".","a","p","k">>
Str_Command ==
    <<"C","o","m","m","a","n","d"," ","'">>
Str_returned ==
    <<"'"," ","r","e","t","u","r","n","e","d"," ","n","o","n","-","z","e","r","o"," ","e","x","i","t"," ","s","t","a","t","u","s"," ">>
Str_dot ==
    <<".">>
Str_R8 ==
    <<"R","8">>
Str_minify ==
    <<"m","i","n","i","f","y">>
HeaderLine ==
    <<"L","i","s","t"," ","o","f"," ","d","e","v","i","c","e","s"," ","a","t","t","a","c","h","e","d">>
DeviceLine ==
    <<"e","m","u","l","a","t","o","r","-","5","5","5","4"," ","d","e","v","i","c","e">>
AdvisoryLine ==
    <<"*"," ","d","a","e","m","o","n"," ","s","t","a","r","t","e","d"," ","s","u","c","c","e","s","s","f","u","l","l","y">>
ErrR8 ==
    <<"E","R","R","O","R",":"," ","R","8",":"," ","M","i","s","s","i","n","g"," ","c","l","a","s","s">>
ErrMinifyTask ==
    <<"T","a","s","k"," ",":","a","p","p",":","m","i","n","i","f","y","R","e","l","e","a","s","e","W","i","t","h","R","8"," ","F","A","I","L","E","D">>
ErrMinifyCaps ==
    <<"M","i","n","i","f","y"," ","s","t","e","p"," ","f","a","i","l","e","d">>
ErrOther ==
    <<"G","r","a","d","l","e"," ","b","u","i","l","d"," ","f","a","i","l","e","d">>
Pkg_platform_tools ==
    <<"p","l","a","t","f","o","r","m","-","t","o","o","l","s">>
Pkg_platforms ==
    <<"p","l","a","t","f","o","r","m","s",";","a","n","d","r","o","i","d","-","3","4">>
Pkg_build_tools ==
    <<"b","u","i","l","d","-","t","o","o","l","s",";","3","4",".","0",".","0">>

\* ------------------------------------------------------------ text library
UpperChars ==
    <<"A","B","C","D","E","F","G","H","I","J","K","L","M","N","O","P","Q","R","S","T","U","V","W","X","Y","Z">>
LowerChars ==
    <<"a","b","c","d","e","f","g","h","i","j","k","l","m","n","o","p","q","r","s","t","u","v","w","x","y","z">>

\* str.lower() on one character
LowerChar(c) ==
    IF \E i \in 1..Len(UpperChars) : UpperChars[i] = c
    THEN LowerChars[CHOOSE i \in 1..Len(UpperChars) : UpperChars[i] = c]
    ELSE c

\* str.lower()
Lower(s) ==
    [i \in 1..Len(s) |-> LowerChar(s[i])]

\* `sub in s`
Contains(s, sub) ==
    \E i \in 0..(Len(s) - Len(sub)) : \A j \in 1..Len(sub) : s[i + j] = sub[j]

\* s.startswith(p)
StartsWith(s, p) ==
    /\ Len(p) <= Len(s)
    /\ \A j \in 1..Len(p) : s[j] = p[j]

IsSpace(c) ==
    c \in {" ", "\n", "\t", "\r"}

\* str.strip()
Strip(s) ==
    LET idx == {i \in 1..Len(s) : ~IsSpace(s[i])}
    IN  IF idx = {} THEN <<>>
        ELSE LET lo == CHOOSE i \in idx : \A j \in idx : i <= j
                 hi == CHOOSE i \in idx : \A j \in idx : i >= j
             IN  SubSeq(s, lo, hi)

\* s.split('\n'): the pieces between consecutive newlines
SplitLines(s) ==
    LET nl     == {i \in 1..Len(s) : s[i] = "\n"}
        n      == Cardinality(nl)
        nth(k) == CHOOSE i \in nl : Cardinality({j \in nl : j <= i}) = k
    IN  [k \in 1..(n + 1) |->
            SubSeq(s, IF k = 1 THEN 1 ELSE nth(k - 1) + 1,
                      IF k = n + 1 THEN Len(s) ELSE nth(k) - 1)]

\* lines[1:]
Rest(lines) ==
    IF Len(lines) = 0 THEN <<>> ELSE Tail(lines)

RECURSIVE Unlines(_)
\* the text a process writes when it prints each line followed by a newline
Unlines(lines) ==
    IF lines = <<>> THEN <<>>
    ELSE Head(lines) \o <<"\n">> \o Unlines(Tail(lines))

Digits ==
    <<"0","1","2","3","4","5","6","7","8","9">>

RECURSIVE DecStr(_)
\* "%d" % n for n >= 0
DecStr(n) ==
    IF n < 10 THEN <<Digits[n + 1]>>
    ELSE DecStr(n \div 10) \o <<Digits[(n % 10) + 1]>>

\* ------------------------------------------------------- Process Executor
\* Exit statuses an external process ends with.
ExitStatuses ==
    {0, 1}

\* What a process does: its exit status and what it writes.
Proc(rc, out, err) ==
    [rc |-> rc, out |-> out, err |-> err]

\* A process whose output nobody models (it goes to the terminal).
Procs ==
    {Proc(rc, <<>>, <<>>) : rc \in ExitStatuses}

\* str(e) of the subprocess.CalledProcessError raised for a non-zero status
CalledProcessErrorStr(cmd, rc) ==
    Str_Command \o cmd \o Str_returned \o DecStr(rc) \o Str_dot

\* The triple run_command returns; raised: an exception left run_command
\* instead (the triple is then never handed to the caller).
Outcome(ok, out, err) ==
    [success |-> ok, stdout |-> out, stderr |-> err, raised |-> FALSE]

\* run_command without its `except subprocess.CalledProcessError` clause:
\* the exception subprocess.run raises for check=True leaves run_command.
run_command_uncaught(cmd, check, capture_output, p) ==
    IF check /\ p.rc # 0
    THEN [success |-> FALSE, stdout |-> <<>>, stderr |-> <<>>, raised |-> TRUE]
    ELSE IF capture_output
         THEN Outcome(p.rc = 0, p.out, p.err)
         ELSE Outcome(p.rc = 0, <<>>, <<>>)

\* run_command as it would be without the CalledProcessError path: the
\* process's own output is handed back whatever the exit status.
run_command_unchecked(cmd, check, capture_output, p) ==
    IF capture_output
    THEN Outcome(p.rc = 0, p.out, p.err)
    ELSE Outcome(p.rc = 0, <<>>, <<>>)

\* run_command(cmd, check=..., capture_output=...): subprocess.run raises
\* CalledProcessError when check is true and the status is non-zero; the
\* handler returns (False, "", str(e)).
run_command(cmd, check, capture_output, p) ==
    IF check /\ p.rc # 0
    THEN Outcome(FALSE, <<>>, CalledProcessErrorStr(cmd, p.rc))
    ELSE IF capture_output
         THEN Outcome(p.rc = 0, p.out, p.err)
         ELSE Outcome(p.rc = 0, <<>>, <<>>)

\* ------------------------------------------------------------- filesystem
\* The paths the engine tests, creates and removes.
FsStates ==
    [java_home : BOOLEAN, flutter_dir : BOOLEAN, cmdline_tools : BOOLEAN,
     apk_debug : BOOLEAN, apk_release : BOOLEAN, android_build : BOOLEAN,
     mipmap : BOOLEAN, layout : {"absent", "mipmap", "drawable"}]

\* One executed command (or filesystem operation) and whether it succeeded.
Ran(cmd, ok) ==
    [cmd |-> cmd, ok |-> ok]

\* What a handler hands back: its return value, whether it raised instead,
\* the filesystem it leaves and the commands it ran, in order.
Handled(ret, exc, f, lg) ==
    [ret |-> ret, exc |-> exc, fs |-> f, log |-> lg]

\* apk_path = project_dir/build/app/outputs/flutter-apk/app-<build_type>.apk,
\* named by its variant; "None" is Python's None.
ApkPath(build_type) ==
    build_type

\* apk_path.exists()
ApkExists(f, build_type) ==
    IF build_type = "release" THEN f.apk_release ELSE f.apk_debug

\* ------------------------------------------------------ Toolchain Resolver
\* check_java: install when java_home is absent, then `java -version`.
check_java(f, pApt, pVer) ==
    LET ver == run_command(Cmd_java_version, TRUE, TRUE, pVer)
    IN  IF ~f.java_home
        THEN LET apt == run_command(Cmd_apt_install, TRUE, FALSE, pApt)
             IN  IF ~apt.success
                 THEN Handled(FALSE, FALSE, f, <<Ran("apt_install", FALSE)>>)
                 ELSE Handled(ver.success, FALSE, [f EXCEPT !.java_home = TRUE],
                              <<Ran("apt_install", TRUE), Ran("java_version", ver.success)>>)
        ELSE Handled(ver.success, FALSE, f, <<Ran("java_version", ver.success)>>)

\* setup_flutter's install branch going on to the first-run commands after
\* a failed clone.
flutter_install_soft(cls, f, lg, pClone, pCfg, pPre) ==
    LET clone == run_command(Cmd_git_clone, TRUE, FALSE, pClone)
        cfg   == run_command(Cmd_config_no_analytics, TRUE, FALSE, pCfg)
        pre   == run_command(IF cls = "runner" THEN Cmd_precache_android ELSE Cmd_precache,
                             TRUE, FALSE, pPre)
    IN  Handled(clone.success, FALSE, [f EXCEPT !.flutter_dir = clone.success],
                lg \o <<Ran("git_clone", clone.success),
                        Ran("flutter_config_no_analytics", cfg.success),
                        Ran("flutter_precache", pre.success)>>)

\* setup_flutter's install branch returning what its first-run commands
\* returned.
flutter_install_strict(cls, f, lg, pClone, pCfg, pPre) ==
    LET clone == run_command(Cmd_git_clone, TRUE, FALSE, pClone)
        cfg   == run_command(Cmd_config_no_analytics, TRUE, FALSE, pCfg)
        pre   == run_command(IF cls = "runner" THEN Cmd_precache_android ELSE Cmd_precache,
                             TRUE, FALSE, pPre)
    IN  IF ~clone.success
        THEN Handled(FALSE, FALSE, f, lg \o <<Ran("git_clone", FALSE)>>)
        ELSE Handled(cfg.success /\ pre.success, FALSE, [f EXCEPT !.flutter_dir = TRUE],
                     lg \o <<Ran("git_clone", TRUE), Ran("flutter_config_no_analytics", cfg.success),
                             Ran("flutter_precache", pre.success)>>)

\* setup_flutter from the "Flutter not found, installing" line on: clone,
\* then the two first-run commands whose results are dropped.
flutter_install(cls, f, lg, pClone, pCfg, pPre) ==
    LET clone == run_command(Cmd_git_clone, TRUE, FALSE, pClone)
        cfg   == run_command(Cmd_config_no_analytics, TRUE, FALSE, pCfg)
        pre   == run_command(IF cls = "runner" THEN Cmd_precache_android ELSE Cmd_precache,
                             TRUE, FALSE, pPre)
    IN  IF ~clone.success
        THEN Handled(FALSE, FALSE, f, lg \o <<Ran("git_clone", FALSE)>>)
        ELSE Handled(TRUE, FALSE, [f EXCEPT !.flutter_dir = TRUE],
                     lg \o <<Ran("git_clone", TRUE), Ran("flutter_config_no_analytics", cfg.success),
                             Ran("flutter_precache", pre.success)>>)

\* setup_flutter: verify an existing directory; a failing one is removed
\* (shutil.rmtree without ignore_errors: rmOk false is the OSError it raises).
setup_flutter(cls, f, pVer, rmOk, pClone, pCfg, pPre) ==
    IF f.flutter_dir
    THEN LET ver == run_command(Cmd_flutter_version, TRUE, TRUE, pVer)
         IN  IF ver.success
             THEN Handled(TRUE, FALSE, f, <<Ran("flutter_version", TRUE)>>)
             ELSE IF ~rmOk
             THEN Handled(FALSE, TRUE, f,
                          <<Ran("flutter_version", FALSE), Ran("rmtree_flutter", FALSE)>>)
             ELSE flutter_install(cls, [f EXCEPT !.flutter_dir = FALSE],
                                  <<Ran("flutter_version", FALSE), Ran("rmtree_flutter", TRUE)>>,
                                  pClone, pCfg, pPre)
    ELSE flutter_install(cls, f, <<>>, pClone, pCfg, pPre)

\* setup_android_sdk from the "Android SDK not found, installing" line on:
\* download, mkdir of cmdline-tools/latest, extract.
android_sdk_install(cls, f, lg, pWget, pUnzip) ==
    LET wget  == run_command(IF cls = "runner" THEN Cmd_wget_q ELSE Cmd_wget, TRUE, FALSE, pWget)
        unzip == run_command(Cmd_unzip, TRUE, FALSE, pUnzip)
        made  == [f EXCEPT !.cmdline_tools = TRUE]
    IN  IF ~wget.success
        THEN Handled(FALSE, FALSE, f, lg \o <<Ran("wget", FALSE)>>)
        ELSE Handled(unzip.success, FALSE, made,
                     lg \o <<Ran("wget", TRUE), Ran("mkdir_cmdline_tools", TRUE),
                             Ran("unzip", unzip.success)>>)

\* setup_android_sdk: verify existing command-line tools; failing ones are
\* removed with ignore_errors=True (rmOk false leaves the tree in place).
setup_android_sdk(cls, f, pVer, rmOk, pWget, pUnzip) ==
    IF f.cmdline_tools
    THEN LET ver == run_command(Cmd_sdkmanager_version, TRUE, TRUE, pVer)
         IN  IF ver.success
             THEN Handled(TRUE, FALSE, f, <<Ran("sdkmanager_version", TRUE)>>)
             ELSE android_sdk_install(cls, [f EXCEPT !.cmdline_tools = ~rmOk],
                                      <<Ran("sdkmanager_version", FALSE), Ran("rmtree_android_sdk", rmOk)>>,
                                      pWget, pUnzip)
    ELSE android_sdk_install(cls, f, <<>>, pWget, pUnzip)

\* install_sdk_components giving up when the licenses were not accepted.
install_sdk_components_gated(f, pLic, pInst) ==
    LET lic  == run_command(Cmd_licenses, TRUE, FALSE, pLic)
        inst == run_command(Cmd_sdk_install, TRUE, FALSE, pInst)
    IN  IF ~lic.success
        THEN Handled(FALSE, FALSE, f, <<Ran("sdkmanager_licenses", FALSE)>>)
        ELSE Handled(inst.success, FALSE, f,
                     <<Ran("sdkmanager_licenses", TRUE), Ran("sdkmanager_install", inst.success)>>)

\* components = ["platform-tools", "platforms;android-34", "build-tools;34.0.0"]
SdkComponents ==
    {Pkg_platform_tools, Pkg_platforms, Pkg_build_tools}

\* install_sdk_components: accept licenses (result dropped), then one
\* sdkmanager call naming every component.
install_sdk_components(f, pLic, pInst) ==
    LET lic  == run_command(Cmd_licenses, TRUE, FALSE, pLic)
        inst == run_command(Cmd_sdk_install, TRUE, FALSE, pInst)
    IN  Handled(inst.success, FALSE, f,
                <<Ran("sdkmanager_licenses", lic.success), Ran("sdkmanager_install", inst.success)>>)

\* fix_launcher_icons (FlutterAPKBuilder only): remove the mipmap-*
\* directories (rmOk false: rmtree raises), rewrite the icon reference of
\* the widget layout.
fix_launcher_icons(f, rmOk) ==
    IF f.mipmap /\ ~rmOk
    THEN Handled(FALSE, TRUE, f, <<Ran("rmtree_mipmap", FALSE)>>)
    ELSE Handled(TRUE, FALSE,
                 [f EXCEPT !.mipmap = FALSE,
                           !.layout = IF @ = "mipmap" THEN "drawable" ELSE @],
                 IF f.mipmap THEN <<Ran("rmtree_mipmap", TRUE)>> ELSE <<>>)

\* configure_flutter_sdk
configure_flutter_sdk(f, pCfg) ==
    LET cfg == run_command(Cmd_config_android_sdk, TRUE, FALSE, pCfg)
    IN  Handled(cfg.success, FALSE, f, <<Ran("flutter_config_android_sdk", cfg.success)>>)

\* get_flutter_dependencies (FinSightRunner only)
get_flutter_dependencies(f, pPub) ==
    LET pub == run_command(Cmd_pub_get, TRUE, FALSE, pPub)
    IN  Handled(pub.success, FALSE, f, <<Ran("flutter_pub_get", pub.success)>>)

\* clean_build returning what `flutter clean` returned.
clean_build_strict(cls, f, pClean, rmOk) ==
    LET clean == run_command(Cmd_flutter_clean, TRUE, FALSE, pClean)
        f1    == IF pClean.rc = 0
                 THEN [f EXCEPT !.apk_debug = FALSE, !.apk_release = FALSE]
                 ELSE f
        lg    == <<Ran("flutter_clean", clean.success)>>
    IN  IF ~f1.android_build
        THEN Handled(clean.success, FALSE, f1, lg)
        ELSE IF rmOk
        THEN Handled(clean.success, FALSE, [f1 EXCEPT !.android_build = FALSE],
                     lg \o <<Ran("rmtree_android_build", TRUE)>>)
        ELSE Handled(clean.success /\ cls = "runner", cls = "builder", f1,
                     lg \o <<Ran("rmtree_android_build", FALSE)>>)

\* clean_build: `flutter clean` (result dropped; a successful clean removes
\* the build outputs), then rmtree of android/app/build when it exists
\* (ignore_errors=True in FinSightRunner; FlutterAPKBuilder's may raise).
clean_build(cls, f, pClean, rmOk) ==
    LET clean == run_command(Cmd_flutter_clean, TRUE, FALSE, pClean)
        f1    == IF pClean.rc = 0
                 THEN [f EXCEPT !.apk_debug = FALSE, !.apk_release = FALSE]
                 ELSE f
        lg    == <<Ran("flutter_clean", clean.success)>>
    IN  IF ~f1.android_build
        THEN Handled(TRUE, FALSE, f1, lg)
        ELSE IF rmOk
        THEN Handled(TRUE, FALSE, [f1 EXCEPT !.android_build = FALSE],
                     lg \o <<Ran("rmtree_android_build", TRUE)>>)
        ELSE Handled(cls = "runner", cls = "builder", f1,
                     lg \o <<Ran("rmtree_android_build", FALSE)>>)

\* ---------------------------------------------------------- Device Manager
\* The lines a device listing is made of.
LineKinds ==
    {HeaderLine, DeviceLine, AdvisoryLine, <<>>}

RECURSIVE SeqsUpTo(_, _)
\* every sequence over S of length at most n
SeqsUpTo(S, n) ==
    IF n = 0 THEN {<<>>}
    ELSE LET shorter == SeqsUpTo(S, n - 1)
         IN  shorter \cup {Append(s, x) : s \in {t \in shorter : Len(t) = n - 1}, x \in S}

\* Every output of `adb devices -l`, as its lines.
AdbListings ==
    SeqsUpTo(LineKinds, MaxLines)

\* devices = [line for line in lines[1:] if line.strip() and not line.startswith('*')]
DeviceLines(lines) ==
    SelectSeq(Rest(lines), LAMBDA line : Strip(line) # <<>> /\ ~StartsWith(line, <<"*">>))

\* check_connected_devices reading whatever the listing tool printed, whatever
\* its exit status.
check_connected_devices_any_status(pAdb) ==
    LET r       == run_command(Cmd_adb_devices, FALSE, TRUE, pAdb)
        devices == DeviceLines(SplitLines(Strip(r.stdout)))
        found   == r.stdout # <<>> /\ devices # <<>>
    IN  [has   |-> found,
         count |-> IF found THEN Len(devices) ELSE 0,
         log   |-> <<Ran("adb_devices", r.success)>>]

\* check_connected_devices: (has_device, count) and the command it ran.
check_connected_devices(pAdb) ==
    LET r       == run_command(Cmd_adb_devices, TRUE, TRUE, pAdb)
        devices == DeviceLines(SplitLines(Strip(r.stdout)))
        found   == r.success /\ r.stdout # <<>> /\ devices # <<>>
    IN  [has   |-> found,
         count |-> IF found THEN Len(devices) ELSE 0,
         log   |-> <<Ran("adb_devices", r.success)>>]

\* Device listings the listing tool may print, with its exit status.
AdbRuns ==
    {<<0, lines>> : lines \in AdbListings}
    \cup {<<1, lines>> : lines \in {<<>>, <<HeaderLine, DeviceLine>>}}

\* The listing tool as a process: each line followed by a newline.
AdbProc(run) ==
    Proc(run[1], Unlines(run[2]), <<>>)

\* A listing of the shape the device tool prints: advisory lines, one header
\* line, then device and advisory lines.
HeaderAt(lines) ==
    CHOOSE i \in 1..Len(lines) : lines[i] = HeaderLine

WellFormedListing(lines) ==
    /\ Cardinality({i \in 1..Len(lines) : lines[i] = HeaderLine}) = 1
    /\ \A i \in 1..Len(lines) : lines[i] \in {HeaderLine, DeviceLine, AdvisoryLine}
    /\ \A i \in 1..Len(lines) : lines[i] = DeviceLine => i > HeaderAt(lines)

\* The devices a listing names: its device lines after the header.
DevicesAfterHeader(lines) ==
    Cardinality({i \in 1..Len(lines) :
                    lines[i] = DeviceLine /\ \E h \in 1..(i - 1) : lines[h] = HeaderLine})

\* What the listing tool prints when install_apk or run_app asks it: nothing,
\* or a well-formed listing; it may exit non-zero.
DeviceRuns ==
    {run \in AdbRuns : run[2] = <<>> \/ WellFormedListing(run[2])}

\* An enumeration answered from a kept result instead of the listing tool:
\* one device, no command run.
EnumerateCached ==
    [run \in AdbRuns |-> [has |-> TRUE, count |-> 1, log |-> <<>>]]

\* check_connected_devices on every listing (a table of its results).
Enumerate ==
    [run \in AdbRuns |-> check_connected_devices(AdbProc(run))]

\* run_app: enumerate, then `flutter run` in the foreground with check=False.
run_app(f, adb, pRun) ==
    LET d   == Enumerate[adb]
        run == run_command(Cmd_flutter_run, FALSE, FALSE, pRun)
    IN  IF ~d.has
        THEN Handled(FALSE, FALSE, f, d.log)
        ELSE Handled(run.success, FALSE, f, d.log \o <<Ran("flutter_run", run.success)>>)

\* install_apk: enumerate, then `adb install -r <apk_path>`.
install_apk(f, path, adb, pInst) ==
    LET d    == Enumerate[adb]
        inst == run_command(IF path = "release" THEN Cmd_adb_install_release
                            ELSE Cmd_adb_install_debug, TRUE, TRUE, pInst)
    IN  IF ~d.has
        THEN Handled(FALSE, FALSE, f, d.log)
        ELSE Handled(inst.success, FALSE, f, d.log \o <<Ran("adb_install", inst.success)>>)

\* ------------------------------------------------------ Build Orchestrator
\* What the build tool writes to stderr.
BuildErrTexts ==
    {<<>>, ErrR8, ErrMinifyTask, ErrMinifyCaps, ErrOther}

\* `"R8" in stderr or "minify" in stderr.lower()`
HasMarker(stderr) ==
    Contains(stderr, Str_R8) \/ Contains(Lower(stderr), Str_minify)

\* Build commands where FlutterAPKBuilder asks for a minified release build.
BuildCmd_minified(cls, build_type) ==
    IF build_type = "release"
    THEN IF cls = "runner" THEN Cmd_build_release
         ELSE Cmd_builder_build_release \o <<" ", "-", "-">> \o Str_minify
    ELSE Cmd_build_debug

\* The build command of one class for one variant.
BuildCmd(cls, build_type) ==
    IF build_type = "release"
    THEN IF cls = "runner" THEN Cmd_build_release ELSE Cmd_builder_build_release
    ELSE Cmd_build_debug

\* The build tool's effect: a run that exits zero and produces its artifact
\* leaves app-<variant>.apk behind.
AfterBuildTool(f, build_type, rc, made) ==
    IF rc = 0 /\ made
    THEN IF build_type = "release" THEN [f EXCEPT !.apk_release = TRUE]
         ELSE [f EXCEPT !.apk_debug = TRUE]
    ELSE f

\* Build tool behaviours: exit status, stderr text.
BuildProcs ==
    {Proc(rc, <<>>, err) : rc \in ExitStatuses, err \in BuildErrTexts}

\* success, stdout, stderr = run_command(build_cmd, env=self.env, capture_output=True)
\* for every class, variant and tool behaviour, with the marker test on the
\* stderr that run_command returned (a table of the results).
BuildRun ==
    [cls \in {"runner", "builder"}, build_type \in {"debug", "release"}, p \in BuildProcs |->
        LET r == run_command(BuildCmd(cls, build_type), TRUE, TRUE, p)
        IN  [success |-> r.success, marker |-> HasMarker(r.stderr)]]

\* build_apk without the apk_path.exists() test.
build_apk_no_gate(cls, f, build_type, p, made) ==
    LET r  == BuildRun[cls, build_type, p]
        f1 == AfterBuildTool(f, build_type, p.rc, made)
    IN  IF r.success
        THEN [recurse |-> FALSE, success |-> TRUE, apk_path |-> ApkPath(build_type), fs |-> f1]
        ELSE [recurse |-> r.marker, success |-> FALSE, apk_path |-> "None", fs |-> f1]

\* build_apk retrying with a debug build after every failure of the tool,
\* whatever the error text.
build_apk_retry_any(cls, f, build_type, p, made) ==
    LET r  == BuildRun[cls, build_type, p]
        f1 == AfterBuildTool(f, build_type, p.rc, made)
    IN  IF r.success
        THEN IF ApkExists(f1, build_type)
             THEN [recurse |-> FALSE, success |-> TRUE, apk_path |-> ApkPath(build_type), fs |-> f1]
             ELSE [recurse |-> FALSE, success |-> FALSE, apk_path |-> "None", fs |-> f1]
        ELSE [recurse |-> TRUE, success |-> FALSE, apk_path |-> "None", fs |-> f1]

\* build_apk handing back the path it looked for when the artifact is absent.
build_apk_path_kept(cls, f, build_type, p, made) ==
    LET r  == BuildRun[cls, build_type, p]
        f1 == AfterBuildTool(f, build_type, p.rc, made)
    IN  IF r.success
        THEN IF ApkExists(f1, build_type)
             THEN [recurse |-> FALSE, success |-> TRUE, apk_path |-> ApkPath(build_type), fs |-> f1]
             ELSE [recurse |-> FALSE, success |-> FALSE, apk_path |-> ApkPath(build_type), fs |-> f1]
        ELSE IF r.marker
             THEN [recurse |-> TRUE, success |-> FALSE, apk_path |-> "None", fs |-> f1]
             ELSE [recurse |-> FALSE, success |-> FALSE, apk_path |-> "None", fs |-> f1]

\* One activation of build_apk(build_type): run the build tool, then either
\* return (success, apk_path) or call build_apk("debug").
build_apk(cls, f, build_type, p, made) ==
    LET r  == BuildRun[cls, build_type, p]
        f1 == AfterBuildTool(f, build_type, p.rc, made)
    IN  IF r.success
        THEN IF ApkExists(f1, build_type)
             THEN [recurse |-> FALSE, success |-> TRUE, apk_path |-> ApkPath(build_type), fs |-> f1]
             ELSE [recurse |-> FALSE, success |-> FALSE, apk_path |-> "None", fs |-> f1]
        ELSE IF r.marker
             THEN [recurse |-> TRUE, success |-> FALSE, apk_path |-> "None", fs |-> f1]
             ELSE [recurse |-> FALSE, success |-> FALSE, apk_path |-> "None", fs |-> f1]

\* ------------------------------------------------------------------ state
VARIABLES
    mode,       \* which entry point runs: "cli", "menu" (finsight_runner.py) or "builder" (build_apk.py)
    args,       \* the parsed command-line flags
    pc,         \* the control point of main / run
    choice,     \* the interactive menu's choice being served
    success,    \* main's local `success`
    apk_path,   \* main's local `apk_path`
    fs,         \* the filesystem
    log,        \* the commands the handler now finished ran, in order
    call,       \* the handler now finished and what it returned
    trace,      \* the handlers the current workflow has called, in order, with how its setup and its build ended
    pipe,       \* the step pipeline: steps invoked, what each returned, commands run
    build,      \* the top-level build_apk call: activations and result
    dev,        \* the device enumeration of the handler now finished
    listing,    \* the device listing being parsed (the parser on its own)
    cmdrun,     \* the run_command call being made (the executor on its own)
    outcome,    \* what that call returned
    env,        \* self.env: the environment handed to external commands
    exit_code   \* the status passed to sys.exit, -1 while running

vars ==
    <<mode, args, pc, choice, success, apk_path, fs, log, call, trace, pipe, build, dev, listing, cmdrun, outcome, env, exit_code>>

NoCall ==
    [name |-> "none", ret |-> FALSE, exc |-> FALSE]

NoDev ==
    [done |-> FALSE, rc |-> 0, empty |-> TRUE, has |-> FALSE, count |-> 0, attached |-> 0, seen |-> FALSE]

NoRun ==
    [cmd |-> <<>>, check |-> TRUE, capture_output |-> FALSE, p |-> Proc(0, <<>>, <<>>)]

NoOutcome ==
    Outcome(FALSE, <<>>, <<>>)

IdlePipe ==
    [status |-> "idle", steps |-> <<>>, rets |-> <<>>, ran |-> {}]

IdleBuild ==
    [status |-> "idle", req |-> "none", build_type |-> "none", depth |-> 0,
     inv |-> <<>>, success |-> FALSE, apk_path |-> "None"]

\* The class whose methods run.
Cls ==
    IF mode = "builder" THEN "builder" ELSE "runner"

\* run_setup's list with the SDK package install after the configuration.
RunnerStepsReordered ==
    <<"check_java", "setup_flutter", "setup_android_sdk", "configure_flutter_sdk",
      "install_sdk_components", "get_flutter_dependencies">>

\* steps of FinSightRunner.run_setup
RunnerSteps ==
    <<"check_java", "setup_flutter", "setup_android_sdk", "install_sdk_components",
      "configure_flutter_sdk", "get_flutter_dependencies">>

\* steps of FlutterAPKBuilder.run
BuilderSteps(skip_clean) ==
    <<"check_java", "setup_flutter", "setup_android_sdk", "install_sdk_components",
      "fix_launcher_icons", "configure_flutter_sdk">>
    \o (IF skip_clean THEN <<>> ELSE <<"clean_build">>)

StepList ==
    IF mode = "builder" THEN BuilderSteps(args.skip_clean) ELSE RunnerSteps

\* The step the pipeline's for loop is about to call.
AtStep(name) ==
    /\ pc = "step"
    /\ Len(pipe.steps) < Len(StepList)
    /\ StepList[Len(pipe.steps) + 1] = name

Flags(setup, clean, bld, install, run, release, skip_clean) ==
    [setup |-> setup, clean |-> clean, build |-> bld, install |-> install, run |-> run,
     release |-> release, skip_clean |-> skip_clean]

\* Command lines that select command-line mode: at least one argument.
CliArgs ==
    {Flags(s, c, b, i, r, FALSE, FALSE) :
        s \in BOOLEAN, c \in BOOLEAN, b \in {"none", "debug", "release"},
        i \in BOOLEAN, r \in BOOLEAN} \ {Flags(FALSE, FALSE, "none", FALSE, FALSE, FALSE, FALSE)}

BuilderArgs ==
    {Flags(FALSE, FALSE, "none", FALSE, FALSE, rel, sk) : rel \in BOOLEAN, sk \in BOOLEAN}

\* The launcher-icon resources are touched by FlutterAPKBuilder only.
RunnerFs ==
    {f \in FsStates : ~f.mipmap /\ f.layout = "absent"}

\* Before its first run FlutterAPKBuilder has rewritten no layout.
BuilderFs ==
    {f \in FsStates : f.layout # "drawable"}

\* os.environ when the script starts: no JAVA_HOME and no PATH, or both set.
OsEnvirons ==
    {[JAVA_HOME |-> "None", PATH |-> <<>>],
     [JAVA_HOME |-> "/opt/jdk-11", PATH |-> <<"/usr/bin">>]}

\* The directories __init__ puts in front of the search path.
PathPrefix(cls) ==
    <<"/tmp/flutter/bin", "/tmp/android-sdk/cmdline-tools/latest/bin",
      "/tmp/android-sdk/platform-tools">>
    \o (IF cls = "runner" THEN <<"/tmp/android-sdk/emulator">> ELSE <<>>)

\* __init__: self.env = os.environ.copy() with ANDROID_HOME, JAVA_HOME and
\* PATH set (PATH as the list of its directories).
init_env(cls, environ) ==
    [ANDROID_HOME |-> "/tmp/android-sdk",
     JAVA_HOME    |-> "/usr/lib/jvm/java-17-openjdk-amd64",
     PATH         |-> PathPrefix(cls) \o environ.PATH]

\* A call of run_command without env=: the process inherits os.environ,
\* which the script never sets.
InheritedEnv ==
    [ANDROID_HOME |-> "None", JAVA_HOME |-> "None", PATH |-> <<>>]

\* The call sites with env= left out of the build command.
EnvArgBuildBare ==
    [c \in {"apt_install", "java_version", "flutter_version", "git_clone",
            "flutter_config_no_analytics", "flutter_precache", "sdkmanager_version",
            "wget", "unzip", "sdkmanager_licenses", "sdkmanager_install",
            "flutter_config_android_sdk", "flutter_pub_get", "flutter_clean",
            "adb_devices", "flutter_run", "adb_install", "build_release", "build_debug"} |->
        IF c \in {"build_release", "build_debug"} THEN "None" ELSE "self.env"]

\* The env= argument of every run_command call site, by the command it runs.
EnvArg ==
    [c \in {"apt_install", "java_version", "flutter_version", "git_clone",
            "flutter_config_no_analytics", "flutter_precache", "sdkmanager_version",
            "wget", "unzip", "sdkmanager_licenses", "sdkmanager_install",
            "flutter_config_android_sdk", "flutter_pub_get", "flutter_clean",
            "adb_devices", "flutter_run", "adb_install", "build_release", "build_debug"} |->
        "self.env"]

StartPipe ==
    [status |-> "running", steps |-> <<>>, rets |-> <<>>, ran |-> {}]

StartBuild(variant) ==
    [status |-> "running", req |-> variant, build_type |-> variant, depth |-> 1,
     inv |-> <<>>, success |-> FALSE, apk_path |-> "None"]

Init ==
    /\ mode \in {"cli", "menu", "builder"}
    /\ args \in (IF mode = "cli" THEN CliArgs
                 ELSE IF mode = "builder" THEN BuilderArgs
                 ELSE {Flags(FALSE, FALSE, "none", FALSE, FALSE, FALSE, FALSE)})
    /\ fs \in (IF mode = "builder" THEN BuilderFs ELSE RunnerFs)
    /\ pc = (IF mode = "cli" THEN "cli_setup" ELSE IF mode = "menu" THEN "menu" ELSE "step")
    /\ pipe = (IF mode = "builder" THEN StartPipe ELSE IdlePipe)
    /\ trace = <<>>
    /\ choice = "none"
    /\ success = TRUE
    /\ apk_path = "None"
    /\ log = <<>>
    /\ call = NoCall
    /\ build = IdleBuild
    /\ dev = NoDev
    /\ listing = <<>>
    /\ cmdrun = NoRun
    /\ outcome = NoOutcome
    /\ env \in {init_env(IF mode = "builder" THEN "builder" ELSE "runner", e) : e \in OsEnvirons}
    /\ exit_code = -1

\* ----------------------------------------------------------- Step Pipeline
\* The loop without its `return False`: a failed step is followed by the next.
StepLoopNoHalt(ret, last) ==
    IF last THEN (IF ret # "True" THEN "failed" ELSE "ok") ELSE "running"

\* The loop without its try/except: an exception a step raises leaves the
\* pipeline.
StepLoopUncaught(ret, last) ==
    IF ret = "Exception" THEN "raised"
    ELSE IF ret # "True" THEN "failed" ELSE IF last THEN "ok" ELSE "running"

\* One iteration of `for step_name, step_func in steps` on what the step
\* did (ret: "True", "False" or "Exception"): a step that returned false or
\* raised ends the loop with False; the last step returning true ends it
\* with True.
StepLoop(ret, last) ==
    IF ret # "True" THEN "failed" ELSE IF last THEN "ok" ELSE "running"

Ctl(p, s, e, b, t) ==
    [pc |-> p, success |-> s, exit_code |-> e, build |-> b, trace |-> t]

\* Where control goes when the pipeline returns ok: into main's command-line
\* flow, back to the menu (which drops the result), or on to
\* FlutterAPKBuilder.run's build (a failed pipeline makes run return False
\* and main exit with 1).
AfterPipeline(ok, t) ==
    IF mode = "cli" THEN Ctl("cli_clean", ok, exit_code, build, t)
    ELSE IF mode = "menu" THEN Ctl("pause", success, exit_code, build, t)
    ELSE IF ok
    THEN Ctl("build", success, exit_code,
             StartBuild(IF args.release THEN "release" ELSE "debug"), Append(t, "build_apk"))
    ELSE Ctl("exit", FALSE, 1, build, t)

\* The pipeline calls step `name`, which behaves as h; an exception that
\* left the pipeline would reach no handler in either main and end the
\* interpreter with status 1.
Step(name, h) ==
    LET ret    == IF h.exc THEN "Exception" ELSE IF h.ret THEN "True" ELSE "False"
        steps2 == Append(pipe.steps, name)
        status == StepLoop(ret, Len(steps2) = Len(StepList))
        t      == IF status = "running" THEN Append(trace, name)
                  ELSE trace \o <<name, IF status = "ok" THEN "setup_ok"
                                        ELSE IF status = "raised" THEN "setup_raised"
                                        ELSE "setup_failed">>
        ctl    == IF status = "running"
                  THEN Ctl("step", success, exit_code, build, t)
                  ELSE IF status = "raised"
                  THEN Ctl("exit", success, 1, build, t)
                  ELSE AfterPipeline(status = "ok", t)
    IN  /\ fs' = h.fs
        /\ log' = h.log
        /\ call' = [name |-> name, ret |-> h.ret, exc |-> h.exc]
        /\ pipe' = [status |-> status, steps |-> steps2, rets |-> Append(pipe.rets, ret),
                    ran |-> pipe.ran \cup {h.log[i].cmd : i \in 1..Len(h.log)}]
        /\ pc' = ctl.pc
        /\ success' = ctl.success
        /\ exit_code' = ctl.exit_code
        /\ build' = ctl.build
        /\ trace' = ctl.trace
        /\ dev' = NoDev
        /\ UNCHANGED <<mode, args, choice, apk_path, listing, cmdrun, outcome, env>>

Step_check_java ==
    /\ AtStep("check_java")
    /\ \E pApt \in Procs, pVer \in Procs :
          Step("check_java", check_java(fs, pApt, pVer))

Step_setup_flutter ==
    /\ AtStep("setup_flutter")
    /\ \E pVer \in Procs, rmOk \in BOOLEAN, pClone \in Procs, pCfg \in Procs, pPre \in Procs :
          Step("setup_flutter", setup_flutter(Cls, fs, pVer, rmOk, pClone, pCfg, pPre))

Step_setup_android_sdk ==
    /\ AtStep("setup_android_sdk")
    /\ \E pVer \in Procs, rmOk \in BOOLEAN, pWget \in Procs, pUnzip \in Procs :
          Step("setup_android_sdk", setup_android_sdk(Cls, fs, pVer, rmOk, pWget, pUnzip))

Step_install_sdk_components ==
    /\ AtStep("install_sdk_components")
    /\ \E pLic \in Procs, pInst \in Procs :
          Step("install_sdk_components", install_sdk_components(fs, pLic, pInst))

Step_fix_launcher_icons ==
    /\ AtStep("fix_launcher_icons")
    /\ \E rmOk \in BOOLEAN :
          Step("fix_launcher_icons", fix_launcher_icons(fs, rmOk))

Step_configure_flutter_sdk ==
    /\ AtStep("configure_flutter_sdk")
    /\ \E pCfg \in Procs :
          Step("configure_flutter_sdk", configure_flutter_sdk(fs, pCfg))

Step_get_flutter_dependencies ==
    /\ AtStep("get_flutter_dependencies")
    /\ \E pPub \in Procs :
          Step("get_flutter_dependencies", get_flutter_dependencies(fs, pPub))

Step_clean_build ==
    /\ AtStep("clean_build")
    /\ \E pClean \in Procs, rmOk \in BOOLEAN :
          Step("clean_build", clean_build(Cls, fs, pClean, rmOk))

\* ------------------------------------------------------------- build_apk
\* Where control goes when the top-level build_apk call ends, returning
\* (ok, path) or, with raised, propagating an exception: main and the menu
\* do not catch it (the interpreter exits with 1), FlutterAPKBuilder.run
\* does and returns False.
AfterBuild(raised, ok, path) ==
    IF mode = "builder"
    THEN [pc |-> "exit", success |-> ok /\ ~raised, apk_path |-> path,
          exit_code |-> IF ok /\ ~raised THEN 0 ELSE 1]
    ELSE IF raised
    THEN [pc |-> "exit", success |-> success, apk_path |-> apk_path, exit_code |-> 1]
    ELSE IF mode = "cli"
    THEN [pc |-> "cli_install", success |-> ok, apk_path |-> path, exit_code |-> exit_code]
    ELSE [pc |-> IF choice = "4" THEN "menu_install" ELSE "pause",
          success |-> ok, apk_path |-> path, exit_code |-> exit_code]

\* One activation of build_apk: the build tool runs as p (made: it leaves
\* its artifact), then the activation returns or calls build_apk("debug");
\* a call beyond the interpreter's recursion limit raises RecursionError.
Build_apk ==
    /\ pc = "build"
    /\ \E p \in BuildProcs, made \in BOOLEAN :
          LET b    == build_apk(Cls, fs, build.build_type, p, made)
              inv2 == Append(build.inv, [variant |-> build.build_type, rc |-> p.rc, err |-> p.err])
              over == b.recurse /\ build.depth >= RecursionLimit
              ctl  == AfterBuild(over, b.success, b.apk_path)
          IN  /\ fs' = b.fs
              /\ log' = <<Ran(IF build.build_type = "release" THEN "build_release" ELSE "build_debug",
                              p.rc = 0)>>
              /\ dev' = NoDev
              /\ IF b.recurse /\ ~over
                 THEN /\ build' = [build EXCEPT !.build_type = "debug", !.depth = @ + 1, !.inv = inv2]
                      /\ call' = NoCall
                      /\ UNCHANGED <<pc, success, apk_path, exit_code, trace>>
                 ELSE /\ build' = [build EXCEPT !.status = IF over THEN "raised" ELSE "returned",
                                                !.inv = inv2, !.success = b.success,
                                                !.apk_path = b.apk_path]
                      /\ call' = [name |-> "build_apk", ret |-> b.success, exc |-> over]
                      /\ trace' = Append(trace, IF over THEN "build_raised"
                                                 ELSE IF b.success THEN "build_ok"
                                                 ELSE "build_failed")
                      /\ pc' = ctl.pc
                      /\ success' = ctl.success
                      /\ apk_path' = ctl.apk_path
                      /\ exit_code' = ctl.exit_code
              /\ UNCHANGED <<mode, args, choice, pipe, listing, cmdrun, outcome, env>>

\* -------------------------------------------------- handlers called by main
\* The enumeration made inside install_apk or run_app on listing `adb`.
DevOf(adb) ==
    [done |-> TRUE, rc |-> adb[1], empty |-> AdbProc(adb).out = <<>>,
     has |-> Enumerate[adb].has, count |-> Enumerate[adb].count,
     attached |-> DevicesAfterHeader(adb[2]), seen |-> FALSE]

\* A handler called `name` has run as h, enumerating devices as d; seen
\* notes whether the enumeration of the handler called just before it found
\* a device (the program itself keeps nothing of an enumeration).
Finished(name, h, d) ==
    /\ fs' = h.fs
    /\ log' = h.log
    /\ call' = [name |-> name, ret |-> h.ret, exc |-> h.exc]
    /\ trace' = Append(trace, name)
    /\ dev' = [d EXCEPT !.seen = dev.has]

\* The step taken called no handler that ran to its end.
Quiet ==
    /\ log' = <<>>
    /\ call' = NoCall
    /\ dev' = NoDev

\* ------------------------------------------- main, command-line mode
\* if args.setup: success = runner.run_setup()
MainSetup ==
    /\ pc = "cli_setup"
    /\ IF args.setup
       THEN /\ pc' = "step"
            /\ pipe' = StartPipe
            /\ trace' = Append(trace, "run_setup")
       ELSE /\ pc' = "cli_clean"
            /\ UNCHANGED <<pipe, trace>>
    /\ Quiet
    /\ UNCHANGED <<listing, cmdrun, outcome, env, mode, args, choice, success, apk_path, fs, build, exit_code>>

\* if success and args.clean: runner.clean_build()
MainClean ==
    /\ pc = "cli_clean"
    /\ IF success /\ args.clean
       THEN \E pClean \in Procs, rmOk \in BOOLEAN :
               Finished("clean_build", clean_build("runner", fs, pClean, rmOk), NoDev)
       ELSE Quiet /\ UNCHANGED <<fs, trace>>
    /\ pc' = "cli_build"
    /\ pipe' = IdlePipe
    /\ UNCHANGED <<listing, cmdrun, outcome, env, mode, args, choice, success, apk_path, build, exit_code>>

\* main's build stage without the test of `success`.
MainBuildAlways ==
    /\ pc = "cli_build"
    /\ IF args.build # "none"
       THEN /\ pc' = "build"
            /\ build' = StartBuild(args.build)
            /\ trace' = Append(trace, "build_apk")
       ELSE /\ pc' = "cli_run"
            /\ UNCHANGED <<build, trace>>
    /\ Quiet
    /\ UNCHANGED <<listing, cmdrun, outcome, env, mode, args, choice, success, apk_path, fs, pipe, exit_code>>

\* if success and args.build: success, apk_path = runner.build_apk(args.build)
MainBuild ==
    /\ pc = "cli_build"
    /\ IF success /\ args.build # "none"
       THEN /\ pc' = "build"
            /\ build' = StartBuild(args.build)
            /\ trace' = Append(trace, "build_apk")
       ELSE /\ pc' = "cli_run"
            /\ UNCHANGED <<build, trace>>
    /\ Quiet
    /\ UNCHANGED <<listing, cmdrun, outcome, env, mode, args, choice, success, apk_path, fs, pipe, exit_code>>

\* if success and args.install and apk_path: runner.install_apk(apk_path)
MainInstall ==
    /\ pc = "cli_install"
    /\ IF success /\ args.install /\ apk_path # "None"
       THEN \E adb \in DeviceRuns, pInst \in Procs :
               Finished("install_apk", install_apk(fs, apk_path, adb, pInst), DevOf(adb))
       ELSE Quiet /\ UNCHANGED <<fs, trace>>
    /\ pc' = "cli_run"
    /\ build' = IdleBuild
    /\ UNCHANGED <<listing, cmdrun, outcome, env, mode, args, choice, success, apk_path, pipe, exit_code>>

\* if success and args.run: success = runner.run_app()
\* sys.exit(0 if success else 1)
MainRun ==
    /\ pc = "cli_run"
    /\ IF success /\ args.run
       THEN \E adb \in DeviceRuns, pRun \in Procs :
               LET h == run_app(fs, adb, pRun)
               IN  /\ Finished("run_app", h, DevOf(adb))
                   /\ success' = h.ret
                   /\ exit_code' = IF h.ret THEN 0 ELSE 1
       ELSE /\ exit_code' = IF success THEN 0 ELSE 1
            /\ Quiet
            /\ UNCHANGED <<fs, trace, success>>
    /\ pc' = "exit"
    /\ UNCHANGED <<listing, cmdrun, outcome, env, mode, args, choice, apk_path, pipe, build>>

\* ------------------------------------------------ main, interactive menu
\* choice '0': sys.exit(0)
Menu_exit ==
    /\ pc = "menu"
    /\ pc' = "exit"
    /\ exit_code' = 0
    /\ UNCHANGED <<listing, cmdrun, outcome, env, mode, args, choice, success, apk_path, fs, log, call, trace, pipe, build, dev>>

\* choice '1': runner.run_app()
Menu_run_app ==
    /\ pc = "menu"
    /\ \E adb \in DeviceRuns, pRun \in Procs :
          Finished("run_app", run_app(fs, adb, pRun), DevOf(adb))
    /\ choice' = "1"
    /\ pc' = "pause"
    /\ UNCHANGED <<listing, cmdrun, outcome, env, mode, args, success, apk_path, pipe, build, exit_code>>

\* choices '2', '3' and '4': runner.build_apk("debug" / "release" / "debug")
Menu_build ==
    /\ pc = "menu"
    /\ \E c \in {"2", "3", "4"} :
          /\ choice' = c
          /\ build' = StartBuild(IF c = "3" THEN "release" ELSE "debug")
    /\ trace' = Append(trace, "build_apk")
    /\ pc' = "build"
    /\ Quiet
    /\ UNCHANGED <<listing, cmdrun, outcome, env, mode, args, success, apk_path, fs, pipe, exit_code>>

\* choice '4' after the build: if success and apk_path: runner.install_apk(apk_path)
Menu_install ==
    /\ pc = "menu_install"
    /\ IF success /\ apk_path # "None"
       THEN \E adb \in DeviceRuns, pInst \in Procs :
               Finished("install_apk", install_apk(fs, apk_path, adb, pInst), DevOf(adb))
       ELSE Quiet /\ UNCHANGED <<fs, trace>>
    /\ pc' = "pause"
    /\ build' = IdleBuild
    /\ UNCHANGED <<listing, cmdrun, outcome, env, mode, args, choice, success, apk_path, pipe, exit_code>>

\* choice '5': runner.run_setup()
Menu_setup ==
    /\ pc = "menu"
    /\ choice' = "5"
    /\ pipe' = StartPipe
    /\ trace' = Append(trace, "run_setup")
    /\ pc' = "step"
    /\ Quiet
    /\ UNCHANGED <<listing, cmdrun, outcome, env, mode, args, success, apk_path, fs, build, exit_code>>

\* choice '6': runner.clean_build(), then runner.build_apk("debug")
Menu_clean_build ==
    /\ pc = "menu"
    /\ \E pClean \in Procs, rmOk \in BOOLEAN :
          LET h == clean_build("runner", fs, pClean, rmOk)
          IN  /\ fs' = h.fs
              /\ log' = h.log
              /\ call' = [name |-> "clean_build", ret |-> h.ret, exc |-> h.exc]
    /\ trace' = trace \o <<"clean_build", "build_apk">>
    /\ dev' = NoDev
    /\ choice' = "6"
    /\ build' = StartBuild("debug")
    /\ pc' = "build"
    /\ UNCHANGED <<listing, cmdrun, outcome, env, mode, args, success, apk_path, pipe, exit_code>>

\* any other choice: "Invalid choice", and the menu is shown again
Menu_invalid ==
    /\ pc = "menu"
    /\ UNCHANGED vars

\* input("Press Enter to continue..."), then the next interactive_menu():
\* nothing of the served choice is read again (success and apk_path are
\* assigned before every use).
Menu_pause ==
    /\ pc = "pause"
    /\ pc' = "menu"
    /\ choice' = "none"
    /\ success' = TRUE
    /\ apk_path' = "None"
    /\ trace' = <<>>
    /\ pipe' = IdlePipe
    /\ build' = IdleBuild
    /\ Quiet
    /\ UNCHANGED <<listing, cmdrun, outcome, env, mode, args, fs, exit_code>>

Next ==
    \/ Step_check_java
    \/ Step_setup_flutter
    \/ Step_setup_android_sdk
    \/ Step_install_sdk_components
    \/ Step_fix_launcher_icons
    \/ Step_configure_flutter_sdk
    \/ Step_get_flutter_dependencies
    \/ Step_clean_build
    \/ Build_apk
    \/ MainSetup
    \/ MainClean
    \/ MainBuild
    \/ MainInstall
    \/ MainRun
    \/ Menu_exit
    \/ Menu_run_app
    \/ Menu_build
    \/ Menu_install
    \/ Menu_setup
    \/ Menu_clean_build
    \/ Menu_invalid
    \/ Menu_pause

Spec ==
    Init /\ [][Next]_vars

\* ------------------------------------------- the device parser on its own
\* Every listing, with the other variables at rest.
ParseInit ==
    /\ listing \in AdbRuns
    /\ pc = "parse"
    /\ dev = NoDev
    /\ mode = "menu"
    /\ args = Flags(FALSE, FALSE, "none", FALSE, FALSE, FALSE, FALSE)
    /\ fs \in {f \in RunnerFs : f.java_home /\ f.flutter_dir /\ f.cmdline_tools
                                /\ ~f.apk_debug /\ ~f.apk_release /\ ~f.android_build}
    /\ pipe = IdlePipe
    /\ trace = <<>>
    /\ choice = "none"
    /\ success = TRUE
    /\ apk_path = "None"
    /\ log = <<>>
    /\ call = NoCall
    /\ build = IdleBuild
    /\ cmdrun = NoRun
    /\ outcome = NoOutcome
    /\ env \in {init_env("runner", e) : e \in OsEnvirons}
    /\ exit_code = -1

\* check_connected_devices() on the listing
Parse_devices ==
    /\ pc = "parse"
    /\ pc' = "parsed"
    /\ dev' = DevOf(listing)
    /\ log' = Enumerate[listing].log
    /\ call' = [name |-> "check_connected_devices", ret |-> Enumerate[listing].has, exc |-> FALSE]
    /\ UNCHANGED <<listing, cmdrun, outcome, env, mode, args, choice, success, apk_path, fs, trace, pipe, build, exit_code>>

ParseNext ==
    Parse_devices

ParseSpec ==
    ParseInit /\ [][ParseNext]_vars

\* --------------------------------------- the process executor on its own
\* Commands run_command is called with.
RunCmds ==
    {Cmd_java_version, Cmd_adb_devices, Cmd_build_release, Cmd_flutter_run}

\* What a process writes to stdout or to stderr.
RunTexts ==
    {<<>>, DeviceLine, ErrOther}

\* Every call run_command(cmd, check=..., capture_output=...) and every
\* behaviour of the process it starts, with the other variables at rest.
RunInit ==
    /\ cmdrun \in [cmd : RunCmds, check : BOOLEAN, capture_output : BOOLEAN,
                   p : {Proc(rc, out, err) : rc \in ExitStatuses, out \in RunTexts, err \in RunTexts}]
    /\ outcome = NoOutcome
    /\ env = init_env("runner", [JAVA_HOME |-> "None", PATH |-> <<>>])
    /\ pc = "run"
    /\ listing = <<>>
    /\ dev = NoDev
    /\ mode = "menu"
    /\ args = Flags(FALSE, FALSE, "none", FALSE, FALSE, FALSE, FALSE)
    /\ fs \in {f \in RunnerFs : f.java_home /\ f.flutter_dir /\ f.cmdline_tools
                                /\ ~f.apk_debug /\ ~f.apk_release /\ ~f.android_build}
    /\ pipe = IdlePipe
    /\ trace = <<>>
    /\ choice = "none"
    /\ success = TRUE
    /\ apk_path = "None"
    /\ log = <<>>
    /\ call = NoCall
    /\ build = IdleBuild
    /\ exit_code = -1

\* run_command(cmd, check=check, capture_output=capture_output)
Run_command ==
    /\ pc = "run"
    /\ pc' = "ran"
    /\ outcome' = run_command(cmdrun.cmd, cmdrun.check, cmdrun.capture_output, cmdrun.p)
    /\ UNCHANGED <<cmdrun, env, listing, dev, mode, args, choice, success, apk_path, fs, log, call,
                   trace, pipe, build, exit_code>>

RunNext ==
    Run_command

RunSpec ==
    RunInit /\ [][RunNext]_vars

\* ------------------------------------------------------------- properties
\* Whether the handler now finished ran command c.
RanCmd(lg, c) ==
    \E i \in 1..Len(lg) : lg[i].cmd = c

\* How often the handler now finished ran command c.
TimesRan(lg, c) ==
    Cardinality({i \in 1..Len(lg) : lg[i].cmd = c})

IsPrefix(s, t) ==
    /\ Len(s) <= Len(t)
    /\ \A i \in 1..Len(s) : s[i] = t[i]

LastInv ==
    build.inv[Len(build.inv)]

\* C1. Fail-fast pipeline: the steps invoked are a prefix of the step list in
\* its order; a step that did not return true is the last step invoked (no
\* later step is ever invoked); and the pipeline has returned failure exactly
\* when that happened: run_setup handed False to its caller, run made main
\* exit with 1.
C1_FailFast ==
    /\ IsPrefix(pipe.steps, StepList)
    /\ Len(pipe.rets) = Len(pipe.steps)
    /\ \A i \in 1..Len(pipe.rets) : pipe.rets[i] # "True" => i = Len(pipe.rets)
    /\ pipe.status = "failed" <=> (pipe.rets # <<>> /\ pipe.rets[Len(pipe.rets)] # "True")
    /\ pipe.status = "failed" =>
          /\ pc # "step"
          /\ mode = "cli" => ~success
          /\ mode = "builder" => pc = "exit" /\ exit_code = 1

\* C1 witness: [A succeeds, B fails, C]: the failure is at the second step
\* and the pipeline has returned with only two steps invoked.
C1_Witness ==
    /\ pipe.status = "failed"
    /\ pipe.rets = <<"True", "False">>
    /\ pipe.steps = <<"check_java", "setup_flutter">>
    /\ Len(StepList) > 2

\* C2. Build totality: a top-level build_apk call never ends in an exception
\* (RecursionError included), never nests more than one fallback activation,
\* makes exactly one build-tool invocation per activation, and what it
\* returns is a build result: (True, path) or (False, None).
C2_BuildTotal ==
    /\ build.status \in {"idle", "running", "returned"}
    /\ build.depth <= 2
    /\ build.status = "running" => pc = "build" /\ Len(build.inv) = build.depth - 1
    /\ build.status = "returned" =>
          /\ Len(build.inv) = build.depth
          /\ \/ build.success /\ build.apk_path \in {"debug", "release"}
             \/ ~build.success /\ build.apk_path = "None"

\* C2 witness: a debug build whose tool failed writing a minification marker
\* to stderr has returned.
C2_Witness ==
    /\ build.status = "returned"
    /\ build.req = "debug"
    /\ build.inv[1].rc # 0
    /\ HasMarker(build.inv[1].err)

\* C3. Build fallback bound: a returned build_apk call invoked the build tool
\* at most twice; a failing debug invocation is the last one; and a release
\* invocation failing with a recoverable marker on the tool's stderr is
\* followed by exactly one fallback attempt, a debug invocation.
C3_FallbackBound ==
    build.status = "returned" =>
        /\ Len(build.inv) <= 2
        /\ \A i \in 1..Len(build.inv) :
              (build.inv[i].variant = "debug" /\ build.inv[i].rc # 0) => i = Len(build.inv)
        /\ (build.req = "release" /\ build.inv[1].rc # 0 /\ HasMarker(build.inv[1].err)) =>
              (Len(build.inv) = 2 /\ build.inv[2].variant = "debug")

\* C4. Release fallback is triggered: when a release invocation of the build
\* tool exits non-zero having written a recoverable marker to stderr,
\* build_apk goes on to a debug invocation and returns what that one yields.
C4_FallbackTriggered ==
    build.status = "returned" =>
        \A i \in 1..Len(build.inv) :
            (build.inv[i].variant = "release" /\ build.inv[i].rc # 0
             /\ HasMarker(build.inv[i].err)) =>
                (i < Len(build.inv) /\ build.inv[i + 1].variant = "debug")

\* C5. Artifact-presence gate: build_apk returns success only if its last
\* build-tool invocation exited zero and app-<variant>.apk exists; a tool
\* success with the artifact absent returns (False, None).
C5_ArtifactGate ==
    build.status = "returned" =>
        /\ build.success =>
              (LastInv.rc = 0 /\ ApkExists(fs, LastInv.variant)
               /\ build.apk_path = ApkPath(LastInv.variant))
        /\ (LastInv.rc = 0 /\ ~ApkExists(fs, LastInv.variant)) =>
              (~build.success /\ build.apk_path = "None")

\* C5 witness: the tool exited zero, the artifact is absent, the build failed.
C5_Witness ==
    /\ build.status = "returned"
    /\ LastInv.rc = 0
    /\ ~ApkExists(fs, LastInv.variant)
    /\ ~build.success

\* C6. Device gating: install_apk and run_app run `adb install` / `flutter
\* run` only when the listing they asked for in the same call names at least
\* one attached device; with zero attached devices they return False and run
\* only the listing command.
C6_DeviceGate ==
    call.name \in {"install_apk", "run_app"} =>
        /\ dev.done
        /\ (RanCmd(log, "adb_install") \/ RanCmd(log, "flutter_run")) => dev.attached >= 1
        /\ dev.attached = 0 => (~call.ret /\ log = <<Ran("adb_devices", dev.rc = 0)>>)

\* C7. Device parsing: for a successful listing of one header line, device
\* lines after it and advisory lines anywhere, the count returned by
\* check_connected_devices is the number of device lines after the header.
C7_DeviceParsing ==
    (pc = "parsed" /\ listing[1] = 0 /\ WellFormedListing(listing[2])) =>
        dev.count = DevicesAfterHeader(listing[2])

InstallCmds ==
    {"apt_install", "git_clone", "wget", "unzip", "sdkmanager_install"}

ProvisioningSteps ==
    {"check_java", "setup_flutter", "setup_android_sdk", "install_sdk_components"}

RemoveCmds ==
    {"rmtree_flutter", "rmtree_android_sdk", "mkdir_cmdline_tools"}

\* C8. Resolver idempotency: in a pipeline run that found every component
\* present (the three trees exist and the run has so far installed and
\* removed nothing), a provisioning step whose commands all succeed runs no
\* install action (no clone, download, extract or package-manager install).
C8_Idempotent ==
    [][(/\ pc = "step"
        /\ fs.java_home /\ fs.flutter_dir /\ fs.cmdline_tools
        /\ pipe.ran \cap (InstallCmds \cup RemoveCmds) = {}
        /\ call'.name \in ProvisioningSteps
        /\ \A i \in 1..Len(log') : log'[i].ok)
       => \A i \in 1..Len(log') : log'[i].cmd \notin InstallCmds]_vars

\* The provisionable components: the step that resolves each, its
\* verification command, the removal of its tree, the command its install
\* action starts with and the one whose success completes the install.
Components ==
    {[step |-> "check_java", dir |-> "java_home", verify |-> "java_version",
      remove |-> "rmtree_java", install |-> "apt_install", installed |-> "apt_install"],
     [step |-> "setup_flutter", dir |-> "flutter_dir", verify |-> "flutter_version",
      remove |-> "rmtree_flutter", install |-> "git_clone", installed |-> "git_clone"],
     [step |-> "setup_android_sdk", dir |-> "cmdline_tools", verify |-> "sdkmanager_version",
      remove |-> "rmtree_android_sdk", install |-> "wget", installed |-> "unzip"]}

\* C9. Corrupted-install recovery for every component: when the component's
\* directory exists and its verification command fails, the step removes the
\* tree and runs the install action exactly once.
C9_CorruptedRecovery ==
    [][\A c \in Components :
          (/\ pc = "step"
           /\ fs[c.dir]
           /\ call'.name = c.step
           /\ log' # <<>>
           /\ log'[1] = Ran(c.verify, FALSE))
          => (TimesRan(log', c.remove) = 1 /\ TimesRan(log', c.install) = 1)]_vars

\* C10. Re-verification after reinstall: a step that removed and reinstalled
\* a component does so once, runs the verification command again after the
\* install, and returns true only if that verification passed.
C10_Reverify ==
    \A c \in Components :
        (call.name = c.step /\ RanCmd(log, c.remove)
         /\ \E k \in 1..Len(log) : log[k] = Ran(c.installed, TRUE))
        => /\ TimesRan(log, c.remove) = 1 /\ TimesRan(log, c.install) = 1
           /\ \E i \in 2..Len(log) :
                 /\ log[i].cmd = c.verify
                 /\ \E j \in 1..(i - 1) : log[j].cmd = c.installed
                 /\ call.ret => log[i].ok

\* Whether the handler now finished ran command c and it failed.
FailedCmd(lg, c) ==
    \E i \in 1..Len(lg) : lg[i] = Ran(c, FALSE)

\* C11. Package-install soft failure: when the batched SDK package install
\* command exits non-zero inside the step pipeline, the pipeline is not
\* aborted: it goes on to the steps after install_sdk_components.
C11_SoftFailure ==
    (call.name = "install_sdk_components" /\ FailedCmd(log, "sdkmanager_install")) =>
        (pipe.status = "running" /\ pc = "step")

\* C12. Exit-code convention: the command-line entry points exit with 0
\* exactly when every requested stage that ran succeeded, and with 1 when
\* any of them failed. For main of finsight_runner.py, `success` at the last
\* stage tells whether setup and build succeeded, the handler just finished
\* tells whether the install did, and the handler the step runs whether the
\* run did; for main of build_apk.py the stages are the setup pipeline and
\* the build.
C12_ExitCode ==
    [][/\ (mode = "cli" /\ pc = "cli_run" /\ pc' = "exit") =>
            LET installFailed == call.name = "install_apk" /\ ~call.ret
                runFailed     == call'.name = "run_app" /\ ~call'.ret
            IN  exit_code' = IF success /\ ~installFailed /\ ~runFailed THEN 0 ELSE 1
       /\ (mode = "builder" /\ pc # "exit" /\ pc' = "exit") =>
            exit_code' = IF pipe'.status = "ok" /\ build'.status = "returned" /\ build'.success
                         THEN 0 ELSE 1]_vars

\* C13. Interrupted run is not a failure: when run_app has launched
\* `flutter run` on an attached device and the launched process ended with a
\* non-zero status, run_app does not return False: the menu prints no
\* "Failed to run app" and command-line mode does not exit with 1.
C13_InterruptedRun ==
    (/\ call.name = "run_app"
     /\ dev.has /\ dev.attached >= 1
     /\ FailedCmd(log, "flutter_run")) =>
        (call.ret /\ (mode = "cli" => exit_code = 0))

\* C14. Captured output: with capture_output true the stdout and stderr that
\* run_command returns are exactly what the process wrote, whatever its exit
\* status; with capture_output false both are empty strings.
C14_CapturedOutput ==
    pc = "ran" =>
        IF cmdrun.capture_output
        THEN outcome.stdout = cmdrun.p.out /\ outcome.stderr = cmdrun.p.err
        ELSE outcome.stdout = <<>> /\ outcome.stderr = <<>>

\* C15. Non-zero exit is a value, not a fault: run_command never raises for
\* a process that exits non-zero, with check true or false, and the success
\* flag it returns is true exactly when the exit status is zero.
C15_NonZeroIsValue ==
    pc = "ran" =>
        /\ ~outcome.raised
        /\ outcome.success <=> (cmdrun.p.rc = 0)

\* C15 witness: a call with check true whose process exited non-zero has
\* returned failure.
C15_Witness ==
    /\ pc = "ran"
    /\ cmdrun.check
    /\ cmdrun.p.rc # 0
    /\ ~outcome.success
    /\ ~outcome.raised

\* The error text build_apk inspected after an invocation of the build tool
\* holds a recoverable marker.
InspectedMarker(i) ==
    BuildRun[Cls, build.inv[i].variant, Proc(build.inv[i].rc, <<>>, build.inv[i].err)].marker

\* C16. Unrecognised failure is not retried: an invocation of the build tool
\* that exits non-zero, with no recoverable marker in the error text
\* build_apk inspects, is the last invocation, and build_apk returns
\* (False, None).
C16_NoRetry ==
    build.status = "returned" =>
        \A i \in 1..Len(build.inv) :
            (build.inv[i].rc # 0 /\ ~InspectedMarker(i)) =>
                (i = Len(build.inv) /\ ~build.success /\ build.apk_path = "None")

\* C16 witness: a release build whose tool failed with an error text that
\* names no marker has returned after that one invocation.
C16_Witness ==
    /\ build.status = "returned"
    /\ build.req = "release"
    /\ Len(build.inv) = 1
    /\ build.inv[1].rc # 0
    /\ build.inv[1].err = ErrOther
    /\ ~InspectedMarker(1)
    /\ ~build.success

\* The order the specification gives to run_setup's steps.
SetupOrder ==
    <<"check_java", "setup_flutter", "setup_android_sdk", "install_sdk_components",
      "configure_flutter_sdk", "get_flutter_dependencies">>

\* C17. Fixed setup order: run_setup invokes its steps in the order Java
\* check, Flutter resolver, Android SDK resolver, SDK package install,
\* Flutter configuration, dependency fetch, each at most once; a step is
\* invoked only after every earlier step returned true; and run_setup
\* returns true exactly when all six steps returned true.
C17_SetupOrder ==
    mode # "builder" =>
        /\ IsPrefix(pipe.steps, SetupOrder)
        /\ Len(pipe.rets) = Len(pipe.steps)
        /\ \A i \in 1..(Len(pipe.steps) - 1) : pipe.rets[i] = "True"
        /\ pipe.status = "ok" <=>
              (Len(pipe.rets) = 6 /\ \A i \in 1..6 : pipe.rets[i] = "True")
        /\ pipe.status = "running" <=>
              (pc = "step" /\ Len(pipe.rets) < 6 /\ \A i \in 1..Len(pipe.rets) : pipe.rets[i] = "True")
        /\ (mode = "cli" /\ pipe.status \in {"ok", "failed"}) => (success <=> pipe.status = "ok")

\* C17 witness: run_setup has invoked all six steps in order and returned
\* true to main.
C17_Witness ==
    /\ mode = "cli"
    /\ pipe.status = "ok"
    /\ pipe.steps = SetupOrder
    /\ success
    /\ pc = "cli_clean"

\* C18. Exceptions in a step become step failures: a step that raised is the
\* last step invoked, the pipeline has returned False, and the exception
\* did not reach the pipeline's caller: main goes on after run_setup with
\* success false, the menu goes on to its prompt, and FlutterAPKBuilder.run
\* returns False to its main, which exits with 1.
C18_StepExceptions ==
    /\ pipe.status # "raised"
    /\ \A i \in 1..Len(pipe.rets) :
          pipe.rets[i] = "Exception" =>
              /\ i = Len(pipe.rets)
              /\ Len(pipe.steps) = i
              /\ pipe.status = "failed"
              /\ mode = "cli" => (pc = "cli_clean" /\ ~success /\ exit_code = -1)
              /\ mode = "menu" => (pc = "pause" /\ exit_code = -1)
              /\ mode = "builder" => (pc = "exit" /\ ~success /\ exit_code = 1)

\* C18 witness: the second step of run_setup raised and run_setup returned
\* False to main.
C18_Witness ==
    /\ mode = "cli"
    /\ pipe.rets = <<"True", "Exception">>
    /\ call.exc
    /\ pipe.status = "failed"
    /\ pc = "cli_clean"

\* The install actions of the three components: apt install, git clone,
\* download, extract.
ComponentInstallCmds ==
    {"apt_install", "git_clone", "wget", "unzip"}

\* C19. Failed install is fatal to its step: when the install action of a
\* component fails, it is the last command its step runs (no first-run
\* configuration, nothing further), the step returns False, and the
\* pipeline halts.
C19_FailedInstallFatal ==
    call.name \in {"check_java", "setup_flutter", "setup_android_sdk"} =>
        \A i \in 1..Len(log) :
            (log[i].cmd \in ComponentInstallCmds /\ ~log[i].ok) =>
                /\ i = Len(log)
                /\ ~call.ret /\ ~call.exc
                /\ pipe.status = "failed"
                /\ pc # "step"
                /\ pipe.steps[Len(pipe.steps)] = call.name

\* C19 witness: the clone of the Flutter SDK failed, setup_flutter returned
\* False after it and the pipeline halted.
C19_Witness ==
    /\ call.name = "setup_flutter"
    /\ log # <<>>
    /\ log[Len(log)] = Ran("git_clone", FALSE)
    /\ ~call.ret
    /\ pipe.status = "failed"

\* The handler now finished invoked the install or the launch command.
Launched ==
    RanCmd(log, "adb_install") \/ RanCmd(log, "flutter_run")

\* C20. No stale device gating: every install_apk and run_app call first
\* runs its own device listing and decides on that enumeration alone; when
\* the call before it saw a device and the listing made now is empty, fails
\* or names no device, the install or run command is not invoked.
C20_NoStaleGate ==
    call.name \in {"install_apk", "run_app"} =>
        /\ dev.done
        /\ log # <<>> /\ log[1].cmd = "adb_devices"
        /\ TimesRan(log, "adb_devices") = 1
        /\ Launched <=> dev.has
        /\ (dev.seen /\ (dev.empty \/ dev.rc # 0 \/ ~dev.has)) => (~Launched /\ ~call.ret)

\* C20 witness: install_apk saw a device, and the run_app called after it
\* listed none and launched nothing.
C20_Witness ==
    /\ call.name = "run_app"
    /\ dev.seen
    /\ dev.rc = 0 /\ ~dev.empty /\ dev.attached = 0 /\ ~dev.has
    /\ log = <<Ran("adb_devices", TRUE)>>
    /\ ~call.ret

\* The handlers the workflow called after position i of its trace.
StagesAfter(i) ==
    {trace[j] : j \in (i + 1)..Len(trace)}

\* C21. No stage runs after a fatal stage failure in command-line mode:
\* once the requested setup has failed, clean, build, install and run are
\* never invoked; once the requested build has failed, install and run are
\* never invoked.
C21_NoStageAfterFailure ==
    mode \in {"cli", "builder"} =>
        \A i \in 1..Len(trace) :
            /\ trace[i] = "setup_failed" =>
                  StagesAfter(i) \cap {"clean_build", "build_apk", "install_apk", "run_app"} = {}
            /\ trace[i] = "build_failed" =>
                  StagesAfter(i) \cap {"install_apk", "run_app"} = {}

\* C21 witness: setup, build and run were requested, the setup failed at
\* its first step, and main has exited with 1 having called nothing else.
C21_Witness ==
    /\ mode = "cli"
    /\ args.setup /\ args.clean /\ args.build # "none" /\ args.install /\ args.run
    /\ trace = <<"run_setup", "check_java", "setup_failed">>
    /\ pc = "exit"
    /\ exit_code = 1

\* The environment the handler now finished gave to command c.
GivenEnv(c) ==
    IF EnvArg[c] = "self.env" THEN env ELSE InheritedEnv

\* C22. Execution environment is fixed after construction: no operation
\* modifies self.env, and every external command the handlers run is given
\* that mapping, which holds the SDK root, the runtime home and the
\* search-path prefix.
C22_EnvFixed ==
    [][/\ env' = env
       /\ \A i \in 1..Len(log') :
             log'[i].cmd \in DOMAIN EnvArg =>
                 /\ GivenEnv(log'[i].cmd) = env'
                 /\ GivenEnv(log'[i].cmd).ANDROID_HOME = "/tmp/android-sdk"
                 /\ GivenEnv(log'[i].cmd).JAVA_HOME = "/usr/lib/jvm/java-17-openjdk-amd64"
                 /\ IsPrefix(<<"/tmp/flutter/bin", "/tmp/android-sdk/cmdline-tools/latest/bin",
                               "/tmp/android-sdk/platform-tools">>,
                             GivenEnv(log'[i].cmd).PATH)]_vars

\* C22 witness: with JAVA_HOME and PATH set when the script started, a
\* build command has run.
C22_Witness ==
    /\ env.PATH[Len(env.PATH)] = "/usr/bin"
    /\ build.status = "returned"
    /\ RanCmd(log, "build_release")

\* Where in the log of the handler now finished command c ran.
PositionsOf(c) ==
    {i \in 1..Len(log) : log[i].cmd = c}

\* The first-run configuration of the Flutter SDK: telemetry off, precache.
FirstRunCmds ==
    {"flutter_config_no_analytics", "flutter_precache"}

\* C23. First-run configuration is best-effort and only after a fresh
\* install: setup_flutter runs the telemetry-disable and precache commands
\* only after a clone that succeeded in the same call, never when the
\* existing install verified; once the clone succeeded both run once and
\* setup_flutter returns True whatever they return.
C23_FirstRunConfig ==
    call.name = "setup_flutter" =>
        /\ \A i \in 1..Len(log) :
              log[i].cmd \in FirstRunCmds =>
                  /\ \E k \in 1..(i - 1) : log[k] = Ran("git_clone", TRUE)
                  /\ \A k \in 1..Len(log) : log[k] # Ran("flutter_version", TRUE)
        /\ (\E k \in 1..Len(log) : log[k] = Ran("git_clone", TRUE)) =>
              /\ call.ret /\ ~call.exc
              /\ \A c \in FirstRunCmds : Cardinality(PositionsOf(c)) = 1
        /\ (\E k \in 1..Len(log) : log[k] = Ran("flutter_version", TRUE)) =>
              (call.ret /\ Len(log) = 1)

\* C23 witness: Flutter was cloned afresh, both first-run commands failed,
\* and setup_flutter returned True.
C23_Witness ==
    /\ call.name = "setup_flutter"
    /\ log = <<Ran("git_clone", TRUE), Ran("flutter_config_no_analytics", FALSE),
               Ran("flutter_precache", FALSE)>>
    /\ call.ret

\* C24. License acceptance precedes a single batched package install: every
\* install_sdk_components call runs the license command first and then the
\* package install command exactly once, that one command naming every
\* declared package; the step returns what the install returned, whatever
\* the license command did.
C24_LicenseThenBatch ==
    call.name = "install_sdk_components" =>
        /\ Len(log) = 2
        /\ log[1].cmd = "sdkmanager_licenses"
        /\ log[2].cmd = "sdkmanager_install"
        /\ \A pkg \in SdkComponents : Contains(Cmd_sdk_install, <<"\"">> \o pkg \o <<"\"">>)
        /\ call.ret = log[2].ok
        /\ ~call.exc

\* C24 witness: the license command failed, the batched install ran and
\* succeeded, and the step returned True.
C24_Witness ==
    /\ call.name = "install_sdk_components"
    /\ log = <<Ran("sdkmanager_licenses", FALSE), Ran("sdkmanager_install", TRUE)>>
    /\ call.ret

\* Where in the workflow's trace handler h was called.
TracePositions(h) ==
    {i \in 1..Len(trace) : trace[i] = h}

\* A clean was asked for: --clean, FlutterAPKBuilder.run without
\* skip_clean, or the menu's "clean and rebuild".
CleanRequested ==
    IF mode = "cli" THEN args.clean
    ELSE IF mode = "builder" THEN ~args.skip_clean
    ELSE choice = "6"

C26_WellFormedResult ==
    build.status = "returned" =>
        /\ \/ /\ build.success
              /\ build.apk_path # "None"
              /\ build.apk_path = ApkPath(LastInv.variant)
              /\ ApkExists(fs, LastInv.variant)
           \/ /\ ~build.success
              /\ build.apk_path = "None"
        /\ call.name = "build_apk" => (call.ret = build.success /\ ~call.exc)

\* C26 witness: a release build that returned (True, app-release.apk) with
\* the file on disk.
C26_Witness ==
    /\ build.status = "returned"
    /\ build.req = "release"
    /\ build.success
    /\ build.apk_path = ApkPath("release")
    /\ fs.apk_release
    /\ call.name = "build_apk"

\* C27. Device-listing failure is treated as no devices: when `adb devices
\* -l` exits non-zero or prints nothing, check_connected_devices returns
\* (False, 0) without raising, and the install_apk or run_app that asked
\* returns False having run the listing command and nothing else.
C27_ListingFailure ==
    (dev.done /\ (dev.rc # 0 \/ dev.empty)) =>
        /\ ~dev.has
        /\ dev.count = 0
        /\ call.name \in {"install_apk", "run_app"}
        /\ ~call.exc
        /\ ~call.ret
        /\ ~Launched
        /\ log = <<Ran("adb_devices", dev.rc = 0)>>

\* C27 witness: run_app asked for the devices, the listing tool printed a
\* device but exited non-zero, and run_app returned False.
C27_Witness ==
    /\ call.name = "run_app"
    /\ dev.done
    /\ dev.rc # 0
    /\ ~dev.empty
    /\ ~dev.has
    /\ ~call.ret

\* The build tool's behaviour in invocation i of the current build_apk call.
InvProc(i) ==
    Proc(build.inv[i].rc, <<>>, build.inv[i].err)

\* Both classes' build_apk(build_type) do the same on files f when the build
\* tool behaves as p: same decision to call build_apk("debug"), same
\* (success, apk_path), same files afterwards.
SameActivation(f, build_type, p, made) ==
    build_apk("builder", f, build_type, p, made) = build_apk("runner", f, build_type, p, made)

=============================================================================
